---- MODULE Spec2Model ----
(***************************************************************************)
(* A model of wiz's registry installers (wiz/registry.py) and process      *)
(* executors (wiz/spawn.py).                                               *)
(*                                                                         *)
(* Strings that the code inspects character by character (paths) are       *)
(* sequences of one-character strings.  Every call of an installer is one  *)
(* action; the state keeps the file system, the arguments of the last      *)
(* call, its outcome and the ordered list of the external effects it had.  *)
(***************************************************************************)
EXTENDS Integers, Sequences, FiniteSets, TLC

VARIABLES
    files,      \* registry content: file |-> serialized definition
    pre,        \* the value of files when the last installer call started
    args,       \* the arguments (and environment answers) of the last call
    result,     \* how the last call ended: normal return or raised error
    events,     \* the external effects of the last call, in order
    sh_pc,      \* where the call of shell() stands
    tty,        \* the mode of the controlling terminal
    entry_tty,  \* the mode of the terminal when shell() was called
    old_tty,    \* shell()'s local old_tty
    executable, \* shell()'s local executable: a path, or None
    child,      \* the spawned shell: "none", "running" or "exited"
    read_list,  \* the descriptors the last select() reported ready
    stdin_buf,  \* bytes waiting on the real standard input
    master_buf, \* bytes the child wrote, waiting on the pty master
    typed,      \* every byte that arrived on standard input, in order
    child_out,  \* every byte the child wrote to the pty, in order
    pty_in,     \* every byte written to the pty master, in order
    stdout,     \* every byte written to the real standard output, in order
    returncode, \* what process.poll() gives in shell(): {} for None, {n}
    stdin_closed, \* whether the real standard input is at its end
    ex_pc,      \* where the call of execute() stands
    process,    \* the command execute() spawned: "none", "running", "exited"
    todo_out,   \* the lines the command has still to write to its stdout
    todo_err,   \* the number of bytes it has still to write to its stderr
    out_pipe,   \* lines written to the stdout pipe and not yet read
    err_pipe,   \* the number of bytes waiting in the stderr pipe
    written,    \* every line the command wrote to its stdout, in order
    echoed,     \* every string execute() printed, in order
    ex_returncode \* what process.poll() gives in execute(): {} or {n}

path_vars == <<files, pre, args, result, events>>

shell_vars ==
    <<sh_pc, tty, entry_tty, old_tty, executable, child, read_list, stdin_buf,
      master_buf, typed, child_out, pty_in, stdout, returncode,
      stdin_closed>>

exec_vars ==
    <<ex_pc, process, todo_out, todo_err, out_pipe, err_pipe, written, echoed,
      ex_returncode>>

vars == <<path_vars, shell_vars, exec_vars>>

(***************************************************************************)
(* Bounds                                                                  *)
(***************************************************************************)
\* Longest list of definitions handed to an installer.
MaxBatch == 2
\* Most bytes that arrive on the real standard input during a call.
MaxTyped == 2
\* Most bytes the child shell writes to the pty during a call.
MaxChildOut == 2
\* Most folder levels of a start path below the discovery root.
MaxDepth == 2
\* Most explicit paths handed to fetch.
MaxPaths == 2

(***************************************************************************)
(* Strings and posix paths                                                 *)
(***************************************************************************)
SEP == "/"

S_wiz == <<".", "w", "i", "z">>
S_registry == <<"r", "e", "g", "i", "s", "t", "r", "y">>
S_t == <<"t">>
S_xwiz == <<"x">> \o S_wiz
S_nowhere == <<"n", "o">>
S_dot == <<".">>
S_dotdot == <<".", ".">>
S_p == <<"p">>

\* str.startswith / str.endswith
startswith(s, prefix) ==
    /\ Len(prefix) <= Len(s)
    /\ SubSeq(s, 1, Len(prefix)) = prefix

endswith(s, suffix) ==
    /\ Len(suffix) <= Len(s)
    /\ SubSeq(s, Len(s) - Len(suffix) + 1, Len(s)) = suffix

\* str.split(sep) for a one-character separator
RECURSIVE split(_, _)
split(s, sep) ==
    IF \A i \in 1..Len(s) : s[i] # sep
    THEN <<s>>
    ELSE LET i == CHOOSE j \in 1..Len(s) :
                      s[j] = sep /\ \A k \in 1..(j - 1) : s[k] # sep
         IN  <<SubSeq(s, 1, i - 1)>> \o split(SubSeq(s, i + 1, Len(s)), sep)

\* sep.join(parts)
RECURSIVE joinstr(_, _)
joinstr(sep, parts) ==
    IF parts = <<>> THEN <<>>
    ELSE IF Len(parts) = 1 THEN parts[1]
    ELSE parts[1] \o <<sep>> \o joinstr(sep, Tail(parts))

\* posixpath.join(a, b)
join2(a, b) ==
    IF startswith(b, <<SEP>>) THEN b
    ELSE IF a = <<>> \/ endswith(a, <<SEP>>) THEN a \o b
    ELSE a \o <<SEP>> \o b

\* posixpath.join(a, *parts)
RECURSIVE join(_, _)
join(a, parts) ==
    IF parts = <<>> THEN a ELSE join(join2(a, parts[1]), Tail(parts))

\* the component loop of posixpath.normpath
RECURSIVE normcomps(_, _, _)
normcomps(comps, new_comps, initial_slashes) ==
    IF comps = <<>> THEN new_comps
    ELSE LET comp == comps[1]
             rest == Tail(comps)
         IN  IF comp = <<>> \/ comp = S_dot
             THEN normcomps(rest, new_comps, initial_slashes)
             ELSE IF \/ comp # S_dotdot
                     \/ (~initial_slashes /\ new_comps = <<>>)
                     \/ (new_comps # <<>> /\ new_comps[Len(new_comps)] = S_dotdot)
             THEN normcomps(rest, Append(new_comps, comp), initial_slashes)
             ELSE IF new_comps # <<>>
             THEN normcomps(rest, SubSeq(new_comps, 1, Len(new_comps) - 1),
                            initial_slashes)
             ELSE normcomps(rest, new_comps, initial_slashes)

\* posixpath.normpath (paths with exactly two leading slashes are not used)
normpath(path) ==
    IF path = <<>> THEN S_dot
    ELSE LET initial_slashes == startswith(path, <<SEP>>)
             comps == normcomps(split(path, SEP), <<>>, initial_slashes)
             body == joinstr(SEP, comps)
             out == IF initial_slashes THEN <<SEP>> \o body ELSE body
         IN  IF out = <<>> THEN S_dot ELSE out

\* the working directory of the process
getcwd == <<SEP>> \o S_t

\* posixpath.abspath in a process whose working directory is cwd
abspath_from(cwd, path) ==
    IF startswith(path, <<SEP>>) THEN normpath(path)
    ELSE normpath(join2(cwd, path))

\* posixpath.abspath
abspath(path) == abspath_from(getcwd, path)

(***************************************************************************)
(* Definitions                                                             *)
(***************************************************************************)
NoVersion == "-"

\* wiz.definition.Definition values: "foo" 0.1.0 and the unversioned "bar",
\* each with or without a description.
Definitions ==
    [identifier : {"foo"}, version : {"0.1.0"}, description : {"", "test"}]
        \cup [identifier : {"bar"}, version : {NoVersion},
              description : {"", "test"}]

\* Definition.encode(): the canonical serialized form.
encode(d) ==
    <<"identifier", d.identifier, "version", d.version,
      "description", d.description>>

SameKey(a, b) == a.identifier = b.identifier /\ a.version = b.version

\* The values a caller hands over as *definition*: one Definition instance
\* (what the signature asks for) or a Python list of them (what the unit
\* tests pass).
ArgSeqs ==
    UNION {[1..n -> Definitions] : n \in 1..MaxBatch}

ArgLists ==
    {[kind |-> "list", items |-> s] : s \in
        {q \in ArgSeqs :
            \A i, j \in 1..Len(q) : i # j => ~SameKey(q[i], q[j])}}

ArgDefinitions ==
    {[kind |-> "Definition", items |-> <<d>>] : d \in Definitions}

Arguments == ArgDefinitions \cup ArgLists

(***************************************************************************)
(* File system                                                             *)
(***************************************************************************)
\* The registry roots callers pass: a directory, the registry directory in
\* it, the same directory as a relative path, and a path that does not exist.
Roots ==
    { <<SEP>> \o S_t,
      <<SEP>> \o S_t \o <<SEP>> \o S_wiz \o <<SEP>> \o S_registry,
      S_dot,
      <<SEP>> \o S_nowhere }

\* The directories that exist.
Directories ==
    { <<SEP>> \o S_t,
      <<SEP>> \o S_t \o <<SEP>> \o S_wiz \o <<SEP>> \o S_registry,
      <<SEP>> \o S_t \o <<SEP>> \o S_xwiz \o <<SEP>> \o S_registry }

\* os.path.isdir
isdir(path) == abspath(path) \in Directories

NoFiles == [f \in {} |-> <<>>]

\* The file a definition is exported to in a registry directory.
FileOf(path, d) ==
    [directory |-> path, identifier |-> d.identifier, version |-> d.version]

WriteFile(fs, file, content) ==
    [f \in DOMAIN fs \cup {file} |-> IF f = file THEN content ELSE fs[f]]

\* wiz.export_definition(path, data, overwrite): what it raises, the files
\* afterwards and the writes it made.  A list is no Definition: nothing is
\* written for it and the attribute access on it fails.
export_definition(fs, path, definition, overwrite) ==
    IF definition.kind # "Definition"
    THEN [raised |-> "AttributeError", files |-> fs, writes |-> <<>>]
    ELSE LET d == definition.items[1]
             file == FileOf(path, d)
         IN  IF file \in DOMAIN fs /\ ~overwrite
             THEN [raised |-> "FileExists", files |-> fs, writes |-> <<>>]
             ELSE [raised |-> "",
                   files |-> WriteFile(fs, file, encode(d)),
                   writes |-> <<[op |-> "write", file |-> file,
                                 content |-> encode(d)]>>]

(***************************************************************************)
(* install_to_path                                                         *)
(***************************************************************************)
Returned == [type |-> "returned", message |-> <<>>]

Raised(type, message) == [type |-> type, message |-> message]

\* registry.py 126-128: the registry directory a root stands for.
registry_directory(registry_path) ==
    LET path == abspath(registry_path)
    IN  IF ~endswith(path, S_wiz \o <<SEP>> \o S_registry)
        THEN join(path, <<S_wiz, S_registry>>)
        ELSE path

\* Reading .identifier / .version of the argument: fails on a list.
HasAttributes(definition) == definition.kind = "Definition"

\* The call exporting with overwrite on, whatever the caller asked for.
export_outcome_forcing(fs, definition, registry_path, overwrite) ==
    LET path == registry_directory(registry_path)
        out == export_definition(fs, path, definition, TRUE)
    IN  [files |-> out.files,
         result |-> IF out.raised = "" THEN Returned
                    ELSE Raised(out.raised, <<>>),
         events |-> <<[op |-> "export_definition", path |-> path,
                       data |-> definition.items,
                       overwrite |-> TRUE]>> \o out.writes
                        \o (IF out.raised = ""
                            THEN <<[op |-> "info", text |-> <<>>]>>
                            ELSE <<>>)]

\* The call reporting before it knows how the export ended.
export_outcome_reporting(fs, definition, registry_path, overwrite) ==
    LET path == registry_directory(registry_path)
        out == export_definition(fs, path, definition, overwrite)
    IN  [files |-> out.files,
         result |-> IF out.raised = "" THEN Returned
                    ELSE Raised("DefinitionExists", <<>>),
         events |-> <<[op |-> "export_definition", path |-> path,
                       data |-> definition.items,
                       overwrite |-> overwrite]>> \o out.writes
                        \o <<[op |-> "info", text |-> <<>>]>>]

\* registry.py 130-148: the call once the root is known to be a directory:
\* the files afterwards, how it ended and its effects.
export_outcome(fs, definition, registry_path, overwrite) ==
    LET path == registry_directory(registry_path)
        out == export_definition(fs, path, definition, overwrite)
        called == <<[op |-> "export_definition", path |-> path,
                     data |-> definition.items,
                     overwrite |-> overwrite]>> \o out.writes
    IN  IF out.raised = "FileExists"
        THEN [files |-> out.files,
              result |->
                  IF HasAttributes(definition)
                  THEN Raised("DefinitionExists",
                              <<"already exists",
                                definition.items[1].identifier,
                                definition.items[1].version>>)
                  ELSE Raised("AttributeError", <<>>),
              events |-> called]
        ELSE IF out.raised # ""
        THEN [files |-> out.files,
              result |-> Raised(out.raised, <<>>),
              events |-> called]
        ELSE IF ~HasAttributes(definition)
        THEN [files |-> out.files,
              result |-> Raised("AttributeError", <<>>),
              events |-> called]
        ELSE [files |-> out.files,
              result |-> Returned,
              events |-> called \o
                  <<[op |-> "info",
                     text |-> <<"Successfully installed",
                                definition.items[1].identifier,
                                definition.items[1].version,
                                path>>]>>]

\* install_to_path without its directory check.
path_outcome_unchecked(fs, definition, registry_path, overwrite) ==
    export_outcome(fs, definition, registry_path, overwrite)

\* registry.py 121-148: the whole call.
path_outcome(fs, definition, registry_path, overwrite) ==
    IF ~isdir(registry_path)
    THEN [files |-> fs,
          result |-> Raised("InstallError",
                            <<"is not a valid registry directory",
                              registry_path>>),
          events |-> <<>>]
    ELSE export_outcome(fs, definition, registry_path, overwrite)

install_to_path(definition, registry_path, overwrite) ==
    LET out == path_outcome(files, definition, registry_path, overwrite)
    IN  /\ pre' = files
        /\ args' = [op |-> "install_to_path", definition |-> definition,
                    registry |-> registry_path, overwrite |-> overwrite]
        /\ files' = out.files
        /\ result' = out.result
        /\ events' = out.events
        /\ UNCHANGED <<shell_vars, exec_vars>>

InstallToPath ==
    \E definition \in Arguments, registry_path \in Roots,
       overwrite \in BOOLEAN :
        install_to_path(definition, registry_path, overwrite)

NoCall == [op |-> "none"]

\* Popen.poll(): None while the process runs, its exit status afterwards.
\* None is the empty set here and a status n the set {n}.
NotExited == {}
ExitCodes == {0, 1}

\* Before shell() is called: the terminal is in the mode given.
ShellIdle(mode) ==
    /\ sh_pc = "idle"
    /\ tty = mode
    /\ entry_tty = mode
    /\ old_tty = mode
    /\ executable = ""
    /\ child = "none"
    /\ read_list = {}
    /\ stdin_buf = <<>>
    /\ master_buf = <<>>
    /\ typed = <<>>
    /\ child_out = <<>>
    /\ pty_in = <<>>
    /\ stdout = <<>>
    /\ returncode = NotExited
    /\ stdin_closed = FALSE

\* Before execute() is called.
ExecIdle ==
    /\ ex_pc = "idle"
    /\ process = "none"
    /\ todo_out = <<>>
    /\ todo_err = 0
    /\ out_pipe = <<>>
    /\ err_pipe = 0
    /\ written = <<>>
    /\ echoed = <<>>
    /\ ex_returncode = NotExited

NoInstall ==
    /\ files = NoFiles
    /\ pre = NoFiles
    /\ args = NoCall
    /\ result = Returned
    /\ events = <<>>

Init == NoInstall /\ ShellIdle("cooked") /\ ExecIdle

PathNext == InstallToPath

SpecPath == Init /\ [][PathNext]_vars

(***************************************************************************)
(* install_to_vcs                                                          *)
(***************************************************************************)
\* JSON objects are functions from keys to values.
EmptyObject == [k \in {} |-> ""]

\* dict.get(key, default)
get(obj, key, default) == IF key \in DOMAIN obj THEN obj[key] ELSE default

RegistryIdentifiers == {"registry-id", "other-id"}

\* Bodies of the answers of the vault.
ErrorBodies ==
    { EmptyObject,
      [error |-> EmptyObject],
      [error |-> [message |-> "Oh Shit!"]],
      [error |-> [code |-> "409"]] }

ContentBodies ==
    { [data |-> EmptyObject],
      [data |-> [content |-> EmptyObject]],
      [data |-> [content |-> ("registry-id" :> "This is a registry")]] }

\* Answers to GET /api/registry/all and to the release POST.
GetResponses ==
    [status_code : {200, 500}, body : ErrorBodies \cup ContentBodies]

PostResponses ==
    [status_code : {200, 201, 409, 417, 500}, body : ErrorBodies]

NoResponse == [status_code |-> 0, body |-> EmptyObject]

\* What wiz.filesystem.get_name() returns: a name, or None.
None == ""
Names == {"John Doe", None}

\* requests.Response.ok
ok(response) == response.status_code < 400

\* json.dumps of a boolean
json_dumps(b) == IF b THEN "true" ELSE "false"

\* A message that never says "unknown".
error_message_blank(body) == get(get(body, "error", EmptyObject), "message", "")

\* registry.py 180 and 235: the error message of an answer.
error_message(body) ==
    get(get(body, "error", EmptyObject), "message", "unknown")

\* The release answer read without the branch for 409.
release_outcome_no_conflict(definition, registry_identifier, response) ==
    IF ok(response)
    THEN [result |-> Returned,
          events |-> <<[op |-> "info",
                        text |-> <<"Successfully installed",
                                   definition.items[1].identifier,
                                   definition.items[1].version,
                                   registry_identifier>>]>>]
    ELSE [result |-> Raised("InstallError",
                            <<"could not be installed", registry_identifier,
                              error_message(response.body)>>),
          events |-> <<>>]

\* registry.py 210-237: what the answer to the release POST leads to.
release_outcome(definition, registry_identifier, response) ==
    IF ok(response)
    THEN [result |-> Returned,
          events |-> <<[op |-> "info",
                        text |-> <<"Successfully installed",
                                   definition.items[1].identifier,
                                   definition.items[1].version,
                                   registry_identifier>>]>>]
    ELSE IF response.status_code = 409
    THEN [result |-> Raised("DefinitionExists",
                            <<"already exists",
                              definition.items[1].identifier,
                              definition.items[1].version>>),
          events |-> <<>>]
    ELSE [result |-> Raised("InstallError",
                            <<"could not be installed", registry_identifier,
                              error_message(response.body)>>),
          events |-> <<>>]

\* The release made without looking the identifier up.
release_unchecked(definition, registry_identifier, overwrite, get_response, post_response, name) ==
    IF ~HasAttributes(definition)
    THEN [result |-> Raised("AttributeError", <<>>), events |-> <<>>]
    ELSE LET out == release_outcome(definition, registry_identifier,
                                    post_response)
         IN  [result |-> out.result,
              events |-> <<[op |-> "get_username"], [op |-> "get_name"],
                           [op |-> "POST"]>> \o out.events]

\* registry.py 184-208: the call after a successful GET.
release(definition, registry_identifier, overwrite, get_response, post_response, name) ==
    LET registry_identifiers ==
            get(get(get_response.body, "data", EmptyObject),
                "content", EmptyObject)
    IN  IF registry_identifier \notin DOMAIN registry_identifiers
        THEN [result |-> Raised("InstallError",
                                <<"is not a valid registry",
                                  registry_identifier>>),
              events |-> <<>>]
        ELSE IF ~HasAttributes(definition)
        THEN [result |-> Raised("AttributeError", <<>>), events |-> <<>>]
        ELSE LET d == definition.items[1]
                 post ==
                     [op |-> "POST",
                      url |-> <<"/api/registry", registry_identifier,
                                "release">>,
                      params |-> [overwrite |-> json_dumps(overwrite)],
                      data |->
                          [content |-> encode(d),
                           message |->
                               <<"Add", d.identifier, d.version,
                                 "to registry", "jdoe", "author",
                                 IF name # None THEN name ELSE "unknown">>]]
                 out == release_outcome(definition, registry_identifier,
                                        post_response)
             IN  [result |-> out.result,
                  events |-> <<[op |-> "get_username"], [op |-> "get_name"],
                               post>> \o out.events]

\* install_to_vcs going on whatever the GET answered.
vcs_outcome_unchecked(definition, registry_identifier, overwrite, get_response, post_response, name) ==
    LET out == release(definition, registry_identifier, overwrite,
                       get_response, post_response, name)
    IN  [result |-> out.result,
         events |-> <<[op |-> "GET", url |-> <<"/api/registry/all">>]>>
                        \o out.events]

\* install_to_vcs asking for the registries a second time when the first
\* answer was a failure.
vcs_outcome_retrying(definition, registry_identifier, overwrite, get_response, post_response, name) ==
    LET fetched == <<[op |-> "GET", url |-> <<"/api/registry/all">>]>>
    IN  IF ~ok(get_response)
        THEN [result |-> Raised("InstallError",
                                <<"registries could not be retrieved",
                                  error_message(get_response.body)>>),
              events |-> fetched \o fetched]
        ELSE LET out == release(definition, registry_identifier, overwrite,
                                get_response, post_response, name)
             IN  [result |-> out.result, events |-> fetched \o out.events]

\* registry.py 176-237: the whole call.
vcs_outcome(definition, registry_identifier, overwrite, get_response, post_response, name) ==
    LET fetched == <<[op |-> "GET", url |-> <<"/api/registry/all">>]>>
    IN  IF ~ok(get_response)
        THEN [result |-> Raised("InstallError",
                                <<"registries could not be retrieved",
                                  error_message(get_response.body)>>),
              events |-> fetched]
        ELSE LET out == release(definition, registry_identifier, overwrite,
                                get_response, post_response, name)
             IN  [result |-> out.result, events |-> fetched \o out.events]

\* Whether the call gets as far as the release POST.
SendsPost(definition, registry_identifier, get_response) ==
    /\ ok(get_response)
    /\ registry_identifier \in
           DOMAIN get(get(get_response.body, "data", EmptyObject),
                      "content", EmptyObject)
    /\ HasAttributes(definition)

install_to_vcs(definition, registry_identifier, overwrite, get_response, post_response, name) ==
    LET out == vcs_outcome(definition, registry_identifier, overwrite,
                           get_response, post_response, name)
    IN  /\ args' = [op |-> "install_to_vcs", definition |-> definition,
                    registry |-> registry_identifier,
                    overwrite |-> overwrite,
                    get_response |-> get_response,
                    post_response |-> post_response, name |-> name]
        /\ result' = out.result
        /\ events' = out.events
        /\ UNCHANGED <<files, pre>>
        /\ UNCHANGED <<shell_vars, exec_vars>>

\* The answers that are never read are not drawn.
InstallToVcs ==
    \E definition \in Arguments, registry_identifier \in RegistryIdentifiers,
       overwrite \in BOOLEAN, get_response \in GetResponses :
        LET sends == SendsPost(definition, registry_identifier, get_response)
        IN  \E post_response \in
                   (IF sends THEN PostResponses ELSE {NoResponse}),
               name \in (IF sends THEN Names ELSE {None}) :
                install_to_vcs(definition, registry_identifier, overwrite,
                               get_response, post_response, name)

VcsNext == InstallToVcs

SpecVcs == Init /\ [][VcsNext]_vars

(***************************************************************************)
(* Both installers, called on a registry that already holds definitions    *)
(***************************************************************************)
\* The contents a registry directory can have: for each definition key no
\* file, or the file holding one of its serialized forms.
RegistryStates ==
    LET path == <<SEP>> \o S_t \o <<SEP>> \o S_wiz \o <<SEP>> \o S_registry
        keys == {FileOf(path, d) : d \in Definitions}
        forms(file) ==
            {encode(d) : d \in {e \in Definitions : FileOf(path, e) = file}}
    IN  UNION {{fs \in [present -> UNION {forms(f) : f \in present}] :
                    \A f \in present : fs[f] \in forms(f)} :
               present \in SUBSET keys}

InstallInit ==
    /\ files \in RegistryStates
    /\ pre = files
    /\ args = NoCall
    /\ result = Returned
    /\ events = <<>>
    /\ ShellIdle("cooked")
    /\ ExecIdle

\* One call of either installer.
InstallNext ==
    \/ args = NoCall /\ InstallToPath
    \/ args = NoCall /\ InstallToVcs

SpecInstall == InstallInit /\ [][InstallNext]_vars

(***************************************************************************)
(* install_to_path over the spellings of a registry root                   *)
(***************************************************************************)
\* Roots that name an existing directory in several spellings (absolute,
\* relative, with a trailing separator, through ".."), the directory
\* x.wiz/registry, and a path that does not exist.
SpelledRoots ==
    Roots \cup
    { <<SEP>> \o S_t \o <<SEP>> \o S_xwiz \o <<SEP>> \o S_registry,
      S_xwiz \o <<SEP>> \o S_registry,
      S_wiz \o <<SEP>> \o S_registry,
      <<SEP>> \o S_t \o <<SEP>>,
      <<SEP>> \o S_t \o <<SEP>> \o S_wiz \o <<SEP>> \o S_registry \o <<SEP>>,
      <<SEP>> \o S_t \o <<SEP>> \o S_p \o <<SEP>> \o S_dotdot }

InstallToSpelledPath ==
    /\ args = NoCall
    /\ \E definition \in Arguments, registry_path \in SpelledRoots,
          overwrite \in BOOLEAN :
           install_to_path(definition, registry_path, overwrite)

SpelledNext == InstallToSpelledPath

SpecSpelled == InstallInit /\ [][SpelledNext]_vars

(***************************************************************************)
(* shell                                                                   *)
(***************************************************************************)
\* Terminal modes (termios attribute lists).
Modes == {"cooked", "cbreak", "raw"}

Bytes == {"a", "b"}

\* The size of one os.read.
ReadSize == 10240

Min(a, b) == IF a < b THEN a ELSE b

\* A read that hands over the first waiting byte only, while all the bytes
\* asked for leave the descriptor.
read_first(buf, n) == SubSeq(buf, 1, Min(Len(buf), 1))

\* os.read(fd, n) on the bytes waiting, and what stays behind.
read(buf, n) == SubSeq(buf, 1, Min(Len(buf), n))
unread(buf, n) == SubSeq(buf, Min(Len(buf), n) + 1, Len(buf))

\* spawn.py 22-26: find the executable (None when the search path holds no
\* such shell), save the terminal mode and switch it to raw.
shell_enter ==
    /\ sh_pc = "idle"
    /\ \E found \in BOOLEAN :
           executable' = IF found THEN "/bin/bash" ELSE None
    /\ entry_tty' = tty
    /\ old_tty' = tty
    /\ tty' = "raw"
    /\ sh_pc' = "openpty"
    /\ UNCHANGED <<child, read_list, stdin_buf, master_buf, typed, child_out,
                   pty_in, stdout>>
    /\ UNCHANGED <<returncode, stdin_closed, path_vars, exec_vars>>

\* spawn.py 29: pty.openpty() hands out a pair.
openpty ==
    /\ sh_pc = "openpty"
    /\ sh_pc' = "popen"
    /\ UNCHANGED <<tty, entry_tty, old_tty, executable, child, read_list,
                   stdin_buf, master_buf, typed, child_out, pty_in, stdout>>
    /\ UNCHANGED <<returncode, stdin_closed, path_vars, exec_vars>>

\* spawn.py 29: pty.openpty() raises OSError (no pty left).
openpty_raises ==
    /\ sh_pc = "openpty"
    /\ sh_pc' = "raised"
    /\ UNCHANGED <<tty, entry_tty, old_tty, executable, child, read_list,
                   stdin_buf, master_buf, typed, child_out, pty_in, stdout>>
    /\ UNCHANGED <<returncode, stdin_closed, path_vars, exec_vars>>

\* spawn.py 32-40: subprocess.Popen spawns the shell, or raises when there
\* is no executable.
popen ==
    /\ sh_pc = "popen"
    /\ IF executable = None
       THEN sh_pc' = "raised" /\ child' = child
       ELSE sh_pc' = "poll" /\ child' = "running"
    /\ UNCHANGED <<tty, entry_tty, old_tty, executable, read_list, stdin_buf,
                   master_buf, typed, child_out, pty_in, stdout>>
    /\ UNCHANGED <<returncode, stdin_closed, path_vars, exec_vars>>

\* spawn.py 42: while process.poll() is None
poll ==
    /\ sh_pc = "poll"
    /\ sh_pc' = IF returncode = NotExited THEN "select" ELSE "restore"
    /\ UNCHANGED <<tty, entry_tty, old_tty, executable, child, read_list,
                   stdin_buf, master_buf, typed, child_out, pty_in, stdout>>
    /\ UNCHANGED <<returncode, stdin_closed, path_vars, exec_vars>>

\* The descriptors a read would not wait on: those with bytes to read, and
\* the standard input once it is at its end.
Ready ==
    (IF stdin_buf # <<>> \/ stdin_closed THEN {"stdin"} ELSE {})
        \cup (IF master_buf # <<>> THEN {"master_fd"} ELSE {})

\* spawn.py 43: select blocks until a descriptor is ready.
select ==
    /\ sh_pc = "select"
    /\ Ready # {}
    /\ read_list' = Ready
    /\ sh_pc' = "forward"
    /\ UNCHANGED <<tty, entry_tty, old_tty, executable, child, stdin_buf,
                   master_buf, typed, child_out, pty_in, stdout>>
    /\ UNCHANGED <<returncode, stdin_closed, path_vars, exec_vars>>

\* spawn.py 45-52: forward one side.
forward ==
    /\ sh_pc = "forward"
    /\ IF "stdin" \in read_list
       THEN /\ pty_in' = pty_in \o read(stdin_buf, ReadSize)
            /\ stdin_buf' = unread(stdin_buf, ReadSize)
            /\ UNCHANGED <<master_buf, stdout>>
       ELSE IF "master_fd" \in read_list
       THEN /\ stdout' = stdout \o read(master_buf, ReadSize)
            /\ master_buf' = unread(master_buf, ReadSize)
            /\ UNCHANGED <<stdin_buf, pty_in>>
       ELSE UNCHANGED <<stdin_buf, pty_in, master_buf, stdout>>
    /\ sh_pc' = "poll"
    /\ UNCHANGED <<tty, entry_tty, old_tty, executable, child, read_list,
                   typed, child_out>>
    /\ UNCHANGED <<returncode, stdin_closed, path_vars, exec_vars>>

\* spawn.py 43-52: select, os.read or os.write raises (an I/O error, or a
\* signal that aborts the loop).
loop_raises ==
    /\ sh_pc \in {"select", "forward"}
    /\ sh_pc' = "raised"
    /\ UNCHANGED <<tty, entry_tty, old_tty, executable, child, read_list,
                   stdin_buf, master_buf, typed, child_out, pty_in, stdout>>
    /\ UNCHANGED <<returncode, stdin_closed, path_vars, exec_vars>>

\* spawn.py 55: restore the saved terminal mode and return.
restore ==
    /\ sh_pc = "restore"
    /\ tty' = old_tty
    /\ sh_pc' = "returned"
    /\ UNCHANGED <<entry_tty, old_tty, executable, child, read_list,
                   stdin_buf, master_buf, typed, child_out, pty_in, stdout>>
    /\ UNCHANGED <<returncode, stdin_closed, path_vars, exec_vars>>

\* The user types a byte.
UserTypes ==
    /\ sh_pc \notin {"returned", "raised"}
    /\ ~stdin_closed
    /\ Len(typed) < MaxTyped
    /\ \E b \in Bytes :
           /\ typed' = Append(typed, b)
           /\ stdin_buf' = Append(stdin_buf, b)
    /\ UNCHANGED <<sh_pc, tty, entry_tty, old_tty, executable, child,
                   read_list, master_buf, child_out, pty_in, stdout>>
    /\ UNCHANGED <<returncode, stdin_closed, path_vars, exec_vars>>

\* The child shell writes a byte to its side of the pty.
ChildWrites ==
    /\ child = "running"
    /\ Len(child_out) < MaxChildOut
    /\ \E b \in Bytes :
           /\ child_out' = Append(child_out, b)
           /\ master_buf' = Append(master_buf, b)
    /\ UNCHANGED <<sh_pc, tty, entry_tty, old_tty, executable, child,
                   read_list, stdin_buf, typed, pty_in, stdout>>
    /\ UNCHANGED <<returncode, stdin_closed, path_vars, exec_vars>>

\* The child shell exits.
ChildExits ==
    /\ child = "running"
    /\ child' = "exited"
    /\ \E code \in ExitCodes : returncode' = {code}
    /\ UNCHANGED <<sh_pc, tty, entry_tty, old_tty, executable, read_list,
                   stdin_buf, master_buf, typed, child_out, pty_in, stdout>>
    /\ UNCHANGED <<stdin_closed, path_vars, exec_vars>>

\* The standard input reaches its end (the terminal hangs up): from now on
\* a read of it returns no byte at once.
StdinEnds ==
    /\ sh_pc \notin {"returned", "raised"}
    /\ ~stdin_closed
    /\ stdin_closed' = TRUE
    /\ UNCHANGED <<sh_pc, tty, entry_tty, old_tty, executable, child,
                   read_list, stdin_buf, master_buf, typed, child_out,
                   pty_in, stdout, returncode>>
    /\ UNCHANGED <<path_vars, exec_vars>>

ShellInit == NoInstall /\ ExecIdle /\ \E mode \in Modes : ShellIdle(mode)

ShellNext ==
    \/ shell_enter
    \/ openpty
    \/ openpty_raises
    \/ popen
    \/ poll
    \/ select
    \/ forward
    \/ loop_raises
    \/ restore
    \/ UserTypes
    \/ ChildWrites
    \/ ChildExits
    \/ StdinEnds

SpecShell == ShellInit /\ [][ShellNext]_vars

\* shell() keeps running: a step of the loop that can be taken is taken.
\* Nothing is assumed of the user, of the child or of errors.
ShellFairness ==
    /\ WF_vars(poll)
    /\ WF_vars(select)
    /\ WF_vars(forward)
    /\ WF_vars(restore)

SpecShellFair == ShellInit /\ [][ShellNext]_vars /\ ShellFairness

(***************************************************************************)
(* execute                                                                 *)
(***************************************************************************)
MaxLines == 2
MaxErr == 2

\* The bytes a pipe holds before a write to it blocks: lines for the stdout
\* pipe, bytes for the stderr pipe.
PipeCapacity == 1

\* The lines a command writes: text, possibly with trailing blanks, and a
\* line feed.
Lines == {<<"a", "\n">>, <<"b", " ", "\n">>}

LineSeqs == UNION {[1..n -> Lines] : n \in 0..MaxLines}

Whitespace == {" ", "\t", "\n", "\r"}

\* str.rstrip(): the string without its trailing whitespace.
RECURSIVE rstrip(_)
rstrip(s) ==
    IF s # <<>> /\ s[Len(s)] \in Whitespace
    THEN rstrip(SubSeq(s, 1, Len(s) - 1))
    ELSE s

\* str.decode("latin"): each byte becomes the character of the same code.
decode_latin(s) == [i \in 1..Len(s) |-> s[i]]

\* print(text, end="\r\n")
printed(text) == text \o <<"\r", "\n">>

\* spawn.py 61-70: subprocess.Popen spawns the command with its stdout and
\* stderr on pipes; the lines iterator is made, nothing is read yet.
execute_enter ==
    /\ ex_pc = "idle"
    /\ \E lines \in LineSeqs, errors \in 0..MaxErr :
           /\ todo_out' = lines
           /\ todo_err' = errors
    /\ process' = "running"
    /\ ex_pc' = "poll"
    /\ UNCHANGED <<out_pipe, err_pipe, written, echoed>>
    /\ UNCHANGED <<ex_returncode, path_vars, shell_vars>>

\* spawn.py 61: subprocess.Popen raises OSError (no such command).
execute_raises ==
    /\ ex_pc = "idle"
    /\ ex_pc' = "raised"
    /\ UNCHANGED <<process, todo_out, todo_err, out_pipe, err_pipe, written,
                   echoed>>
    /\ UNCHANGED <<ex_returncode, path_vars, shell_vars>>

\* A poll that takes a non-zero exit status for a failure.
execute_poll_checked ==
    /\ ex_pc = "poll"
    /\ ex_pc' = IF ex_returncode = NotExited THEN "readline"
              ELSE IF ex_returncode = {0} THEN "returned"
              ELSE "raised"
    /\ UNCHANGED <<process, todo_out, todo_err, out_pipe, err_pipe, written,
                   echoed>>
    /\ UNCHANGED <<ex_returncode, path_vars, shell_vars>>

\* spawn.py 71: while process.poll() is None
execute_poll ==
    /\ ex_pc = "poll"
    /\ ex_pc' = IF ex_returncode = NotExited THEN "readline" ELSE "returned"
    /\ UNCHANGED <<process, todo_out, todo_err, out_pipe, err_pipe, written,
                   echoed>>
    /\ UNCHANGED <<ex_returncode, path_vars, shell_vars>>

\* spawn.py 72-74: the next step of "for line in lines_iterator": readline
\* waits for a line; a line is stripped and printed, the end of the pipe
\* (its writer has exited) ends the for loop.
execute_readline ==
    /\ ex_pc = "readline"
    /\ IF out_pipe # <<>>
       THEN /\ echoed' =
                   Append(echoed, printed(decode_latin(rstrip(Head(out_pipe)))))
            /\ out_pipe' = Tail(out_pipe)
            /\ ex_pc' = ex_pc
       ELSE /\ process = "exited"
            /\ ex_pc' = "poll"
            /\ UNCHANGED <<out_pipe, echoed>>
    /\ UNCHANGED <<process, todo_out, todo_err, err_pipe, written>>
    /\ UNCHANGED <<ex_returncode, path_vars, shell_vars>>

\* The command writes its next line to stdout; the write waits while the
\* pipe is full.
ProcessWrites ==
    /\ process = "running"
    /\ todo_out # <<>>
    /\ Len(out_pipe) < PipeCapacity
    /\ out_pipe' = Append(out_pipe, Head(todo_out))
    /\ written' = Append(written, Head(todo_out))
    /\ todo_out' = Tail(todo_out)
    /\ UNCHANGED <<ex_pc, process, todo_err, err_pipe, echoed>>
    /\ UNCHANGED <<ex_returncode, path_vars, shell_vars>>

\* The command writes a byte to stderr; the write waits while the pipe is
\* full.  Nothing ever reads that pipe.
ProcessWritesError ==
    /\ process = "running"
    /\ todo_err > 0
    /\ err_pipe < PipeCapacity
    /\ err_pipe' = err_pipe + 1
    /\ todo_err' = todo_err - 1
    /\ UNCHANGED <<ex_pc, process, todo_out, out_pipe, written, echoed>>
    /\ UNCHANGED <<ex_returncode, path_vars, shell_vars>>

\* The command has written everything and exits.
ProcessExits ==
    /\ process = "running"
    /\ todo_out = <<>>
    /\ todo_err = 0
    /\ process' = "exited"
    /\ \E code \in ExitCodes : ex_returncode' = {code}
    /\ UNCHANGED <<ex_pc, todo_out, todo_err, out_pipe, err_pipe, written,
                   echoed>>
    /\ UNCHANGED <<path_vars, shell_vars>>

ExecNext ==
    \/ execute_enter
    \/ execute_raises
    \/ execute_poll
    \/ execute_readline
    \/ ProcessWrites
    \/ ProcessWritesError
    \/ ProcessExits

SpecExec == Init /\ [][ExecNext]_vars

(***************************************************************************)
(* Both executors, one call at a time                                      *)
(***************************************************************************)
SpawnNext ==
    \/ ex_pc = "idle" /\ ShellNext
    \/ sh_pc = "idle" /\ ExecNext

SpecSpawn == ShellInit /\ [][SpawnNext]_vars

(***************************************************************************)
(* discover and fetch                                                      *)
(***************************************************************************)
S_jobs == <<"j", "o", "b", "s">>
S_ads == <<"a", "d", "s">>
S_adsx == S_ads \o <<"x">>
S_home == <<"h", "o", "m", "e">>

\* The absolute path made of the segments given.
Path(segments) == <<SEP>> \o joinstr(SEP, segments)

\* The result of a call that was not made yet.
Pending == [type |-> "pending", message |-> <<>>]

ReturnedValue(value) ==
    [type |-> "returned", message |-> <<>>, value |-> value]

\* wiz.filesystem.is_accessible, on a file system whose accessible paths
\* are given.
is_accessible(cwd, accessible, path) == abspath_from(cwd, path) \in accessible

\* s[n:]
slice_from(s, n) == SubSeq(s, n + 1, Len(s))

\* registry.py 86-91: the loop over the folders, as a full iteration: the
\* registry paths yielded and the accessibility checks made, in order.
RECURSIVE discover_loop(_, _, _, _)
discover_loop(folders, prefix, cwd, accessible) ==
    IF folders = <<>> THEN [yielded |-> <<>>, checks |-> <<>>]
    ELSE LET next_prefix == join(prefix, <<folders[1]>>)
             registry_path == join(next_prefix, <<S_wiz, S_registry>>)
             rest == discover_loop(Tail(folders), next_prefix, cwd, accessible)
             check == [op |-> "is_accessible", path |-> registry_path]
         IN  [yielded |->
                  (IF is_accessible(cwd, accessible, registry_path)
                   THEN <<registry_path>> ELSE <<>>) \o rest.yielded,
              checks |-> <<check>> \o rest.checks]

\* discover starting one folder too deep.
discover_from_second(path, cwd, accessible) ==
    LET absolute == abspath_from(cwd, path)
        prefix == join(<<SEP>>, <<S_jobs, S_ads>>)
    IN  IF ~startswith(absolute, prefix)
        THEN [yielded |-> <<>>, checks |-> <<>>]
        ELSE discover_loop(slice_from(split(absolute, SEP), 4),
                           prefix, cwd, accessible)

\* registry.py 79-91: discover(path), iterated to its end.
discover(path, cwd, accessible) ==
    LET absolute == abspath_from(cwd, path)
        prefix == join(<<SEP>>, <<S_jobs, S_ads>>)
    IN  IF ~startswith(absolute, prefix)
        THEN [yielded |-> <<>>, checks |-> <<>>]
        ELSE discover_loop(slice_from(split(absolute, SEP), 3),
                           prefix, cwd, accessible)

\* registry.py 43-46: the explicit paths that are accessible.
RECURSIVE fetch_paths(_, _, _)
fetch_paths(paths, cwd, accessible) ==
    IF paths = <<>> THEN [registries |-> <<>>, checks |-> <<>>]
    ELSE LET rest == fetch_paths(Tail(paths), cwd, accessible)
             check == [op |-> "is_accessible", path |-> paths[1]]
         IN  [registries |->
                  (IF ~is_accessible(cwd, accessible, paths[1])
                   THEN <<>> ELSE <<paths[1]>>) \o rest.registries,
              checks |-> <<check>> \o rest.checks]

\* fetch keeping the paths that are not accessible.
fetch_unfiltered(paths, include_local, include_working_directory, cwd, accessible, local) ==
    LET found == IF include_working_directory
                 THEN discover(cwd, cwd, accessible)
                 ELSE [yielded |-> <<>>, checks |-> <<>>]
    IN  [registries |->
             paths \o found.yielded
                 \o (IF local # None /\ include_local THEN <<local>> ELSE <<>>),
         checks |-> found.checks]

\* registry.py 41-56: fetch; local is what get_local() returns.
fetch(paths, include_local, include_working_directory, cwd, accessible, local) ==
    LET explicit == fetch_paths(paths, cwd, accessible)
        found == IF include_working_directory
                 THEN discover(cwd, cwd, accessible)
                 ELSE [yielded |-> <<>>, checks |-> <<>>]
    IN  [registries |->
             explicit.registries \o found.yielded
                 \o (IF local # None /\ include_local THEN <<local>> ELSE <<>>),
         checks |-> explicit.checks \o found.checks]

\* Folder names, and the chains of folders below the discovery root.
Folders == {S_p, S_t}

LevelSeqs == UNION {[1..n -> Folders] : n \in 0..MaxDepth}

\* The registry directories of the chains.
RegistryCandidates ==
    {Path(<<S_jobs, S_ads>> \o levels \o <<S_wiz, S_registry>>) :
        levels \in LevelSeqs \ {<<>>}}

\* Start paths: under the discovery root by construction, or not.
StartPaths ==
    {[path |-> Path(<<S_jobs, S_ads>> \o levels), under |-> TRUE,
      levels |-> levels] : levels \in LevelSeqs}
        \cup {[path |-> q, under |-> FALSE, levels |-> <<>>] : q \in
                 { Path(<<S_jobs, S_adsx, S_p>>), Path(<<S_jobs, S_adsx>>),
                   Path(<<S_jobs>>), Path(<<S_t, S_p>>), S_p,
                   Path(<<S_jobs, S_p, S_ads>>) }}

DiscoverCalls ==
    {[op |-> "discover", path |-> start.path, under |-> start.under,
      levels |-> start.levels, accessible |-> accessible] :
        start \in StartPaths, accessible \in SUBSET RegistryCandidates}

DiscoverInit ==
    /\ files = NoFiles
    /\ pre = NoFiles
    /\ args \in DiscoverCalls
    /\ result = Pending
    /\ events = <<>>
    /\ ShellIdle("cooked")
    /\ ExecIdle

\* One call of discover, iterated to its end.
Discover ==
    /\ args.op = "discover"
    /\ result = Pending
    /\ LET out == discover(args.path, getcwd, args.accessible)
       IN  /\ result' = ReturnedValue(out.yielded)
           /\ events' = out.checks
    /\ UNCHANGED <<files, pre, args>>
    /\ UNCHANGED <<shell_vars, exec_vars>>

DiscoverNext == Discover

SpecDiscover == DiscoverInit /\ [][DiscoverNext]_vars

\* discover(path) as the generator object it returns.  frame is where the
\* body stands ("created": not started, "suspended": at the yield,
\* "finished": returned); folders and prefix are the loop's locals at the
\* yield.  The consumer's side: pass counts its iterations of the object,
\* stopped tells that the current one got StopIteration, yielded holds the
\* elements of the current iteration, previous those of the one before and
\* checked the number of accessibility checks made when that one ended.
NewGenerator ==
    [type |-> "generator", frame |-> "created", folders |-> <<>>,
     prefix |-> <<>>, pass |-> 1, stopped |-> FALSE, yielded |-> <<>>,
     previous |-> <<>>, checked |-> 0]

\* registry.py 86-91: the loop run from its current position to the next
\* yield, or to its end.
RECURSIVE discover_resume(_, _, _, _)
discover_resume(folders, prefix, cwd, accessible) ==
    IF folders = <<>>
    THEN [frame |-> "finished", folders |-> <<>>, prefix |-> prefix,
          item |-> <<>>, checks |-> <<>>]
    ELSE LET next_prefix == join(prefix, <<folders[1]>>)
             registry_path == join(next_prefix, <<S_wiz, S_registry>>)
             check == [op |-> "is_accessible", path |-> registry_path]
         IN  IF is_accessible(cwd, accessible, registry_path)
             THEN [frame |-> "suspended", folders |-> Tail(folders),
                   prefix |-> next_prefix, item |-> <<registry_path>>,
                   checks |-> <<check>>]
             ELSE LET rest == discover_resume(Tail(folders), next_prefix,
                                              cwd, accessible)
                  IN  [rest EXCEPT !.checks = <<check>> \o @]

\* registry.py 79-84: the body run from its start.
discover_start(path, cwd, accessible) ==
    LET absolute == abspath_from(cwd, path)
        prefix == join(<<SEP>>, <<S_jobs, S_ads>>)
    IN  IF ~startswith(absolute, prefix)
        THEN [frame |-> "finished", folders |-> <<>>, prefix |-> prefix,
              item |-> <<>>, checks |-> <<>>]
        ELSE discover_resume(slice_from(split(absolute, SEP), 3), prefix,
                             cwd, accessible)

\* A sequence object that runs the body anew when it is asked for an
\* element after its end.
generator_next_restarting(generator, path, cwd, accessible) ==
    IF generator.frame = "suspended"
    THEN discover_resume(generator.folders, generator.prefix, cwd, accessible)
    ELSE discover_start(path, cwd, accessible)

\* next() on the generator: a finished generator does nothing more.
generator_next(generator, path, cwd, accessible) ==
    IF generator.frame = "created"
    THEN discover_start(path, cwd, accessible)
    ELSE IF generator.frame = "suspended"
    THEN discover_resume(generator.folders, generator.prefix, cwd, accessible)
    ELSE [frame |-> "finished", folders |-> <<>>,
          prefix |-> generator.prefix, item |-> <<>>, checks |-> <<>>]

GeneratorInit ==
    /\ files = NoFiles
    /\ pre = NoFiles
    /\ args \in DiscoverCalls
    /\ result = NewGenerator
    /\ events = <<>>
    /\ ShellIdle("cooked")
    /\ ExecIdle

\* The consumer asks for the next element.
Request ==
    /\ result.type = "generator"
    /\ ~result.stopped
    /\ LET out == generator_next(result, args.path, getcwd, args.accessible)
       IN  /\ result' = [result EXCEPT !.frame = out.frame,
                                        !.folders = out.folders,
                                        !.prefix = out.prefix,
                                        !.stopped = (out.item = <<>>),
                                        !.yielded = @ \o out.item]
           /\ events' = events \o out.checks
    /\ UNCHANGED <<files, pre, args>>
    /\ UNCHANGED <<shell_vars, exec_vars>>

\* The consumer, at the end of its first iteration, iterates the same
\* object again.
IterateAgain ==
    /\ result.type = "generator"
    /\ result.stopped
    /\ result.pass = 1
    /\ result' = [result EXCEPT !.pass = 2, !.stopped = FALSE,
                                !.previous = result.yielded,
                                !.checked = Len(events),
                                !.yielded = <<>>]
    /\ UNCHANGED <<files, pre, args, events>>
    /\ UNCHANGED <<shell_vars, exec_vars>>

GeneratorNext == Request \/ IterateAgain

SpecGenerator == GeneratorInit /\ [][GeneratorNext]_vars

\* The working directories fetch is called in.
WorkingDirectories == {Path(<<S_jobs, S_ads, S_p, S_t>>), Path(<<S_t>>)}

\* The explicit paths: an absolute one and a relative one.
ExplicitPaths == {Path(<<S_t>>), S_p}

PathSeqs == UNION {[1..n -> ExplicitPaths] : n \in 0..MaxPaths}

LocalRegistry == Path(<<S_home, S_wiz, S_registry>>)

\* What may be accessible: the explicit paths, resolved, and the registry
\* directories of a working directory.
FetchCandidates ==
    { Path(<<S_t>>), Path(<<S_t, S_p>>),
      Path(<<S_jobs, S_ads, S_p, S_t, S_p>>),
      Path(<<S_jobs, S_ads, S_p, S_wiz, S_registry>>),
      Path(<<S_jobs, S_ads, S_p, S_t, S_wiz, S_registry>>) }

FetchCalls ==
    [op : {"fetch"}, paths : PathSeqs, include_local : BOOLEAN,
     include_working_directory : BOOLEAN, cwd : WorkingDirectories,
     accessible : SUBSET FetchCandidates, local : {None, LocalRegistry}]

FetchInit ==
    /\ files = NoFiles
    /\ pre = NoFiles
    /\ args \in FetchCalls
    /\ result = Pending
    /\ events = <<>>
    /\ ShellIdle("cooked")
    /\ ExecIdle

\* One call of fetch.
Fetch ==
    /\ args.op = "fetch"
    /\ result = Pending
    /\ LET out == fetch(args.paths, args.include_local,
                        args.include_working_directory, args.cwd,
                        args.accessible, args.local)
       IN  /\ result' = ReturnedValue(out.registries)
           /\ events' = out.checks
    /\ UNCHANGED <<files, pre, args>>
    /\ UNCHANGED <<shell_vars, exec_vars>>

FetchNext == Fetch

SpecFetch == FetchInit /\ [][FetchNext]_vars

(***************************************************************************)
(* Properties of install_to_path                                           *)
(***************************************************************************)
IsPathCall == args.op = "install_to_path"

\* The batch of the last call and the registry directory of a root.
Batch == args.definition.items
TargetOf(root) ==
    IF endswith(abspath(root), <<SEP>> \o S_wiz \o <<SEP>> \o S_registry)
    THEN abspath(root) ELSE join(abspath(root), <<S_wiz, S_registry>>)

\* The probe of the registry, as it was when the call started.
Found(d) == FileOf(TargetOf(args.registry), d) \in DOMAIN pre
Identical(d) ==
    Found(d) /\ pre[FileOf(TargetOf(args.registry), d)] = encode(d)
Conflicting(d) ==
    Found(d) /\ pre[FileOf(TargetOf(args.registry), d)] # encode(d)

Conflicts == {i \in 1..Len(Batch) : Conflicting(Batch[i])}
Installable ==
    {i \in 1..Len(Batch) :
        ~Found(Batch[i]) \/ (args.overwrite /\ Conflicting(Batch[i]))}

EventsOf(op) == {i \in 1..Len(events) : events[i].op = op}
WrittenFiles == {events[i].file : i \in EventsOf("write")}
RemovedFiles == {events[i].file : i \in EventsOf("remove")}

\* The number of definitions an outcome reports: the code's conflict error
\* and its success report each name one definition.
ReportedConflicts == IF result.type = "DefinitionExists" THEN 1 ELSE 0
ReportedInstalled == Cardinality(EventsOf("info"))

\* C1: with overwrite off, a batch holding at least one conflicting
\* definition raises the conflict error with the number of conflicting
\* definitions, and nothing is deleted, written or reported.
C1_ConflictAbortsBatch ==
    (IsPathCall /\ isdir(args.registry) /\ ~args.overwrite /\ Conflicts # {})
        => /\ result.type = "DefinitionExists"
           /\ ReportedConflicts = Cardinality(Conflicts)
           /\ EventsOf("remove") = {}
           /\ EventsOf("write") = {}
           /\ EventsOf("info") = {}
           /\ files = pre

\* C3: a batch without unresolved conflict and with something to install
\* returns, writes exactly the installable definitions, each once, leaves
\* the identical ones alone and reports the number written.
C3_InstallsExactlyInstallable ==
    (/\ IsPathCall /\ isdir(args.registry)
     /\ (args.overwrite \/ Conflicts = {})
     /\ Installable # {})
        => /\ result.type = "returned"
           /\ WrittenFiles =
                  {FileOf(TargetOf(args.registry), Batch[i]) : i \in Installable}
           /\ Cardinality(EventsOf("write")) = Cardinality(Installable)
           /\ \A i \in EventsOf("write") :
                  \E j \in Installable : events[i].content = encode(Batch[j])
           /\ RemovedFiles \cap
                  {FileOf(TargetOf(args.registry), Batch[i]) :
                      i \in {j \in 1..Len(Batch) : Identical(Batch[j])}} = {}
           /\ ReportedInstalled = Cardinality(EventsOf("write"))

\* C4: with overwrite on, the deleted files are exactly the files of the
\* existing definitions that differ, every deletion precedes every write,
\* and the call returns.
C4_OverwriteDeletesThenWrites ==
    (IsPathCall /\ isdir(args.registry) /\ args.overwrite /\ Installable # {})
        => /\ result.type = "returned"
           /\ RemovedFiles =
                  {FileOf(TargetOf(args.registry), Batch[i]) : i \in Conflicts}
           /\ \A i \in EventsOf("remove"), j \in EventsOf("write") : i < j
           /\ WrittenFiles =
                  {FileOf(TargetOf(args.registry), Batch[i]) : i \in Installable}

\* C5: a batch whose definitions all exist with an identical serialized
\* form raises InstallNoChanges and deletes, writes and reports nothing.
C5_IdenticalBatchNoChanges ==
    (IsPathCall /\ isdir(args.registry)
     /\ \A i \in 1..Len(Batch) : Identical(Batch[i]))
        => /\ result.type = "InstallNoChanges"
           /\ events = <<>>
           /\ files = pre

\* C6: a root that is no existing directory raises InstallError before
\* anything else happens: no mapping, probe, deletion, write or report.
C6_BadRootRaisesFirst ==
    (IsPathCall /\ abspath(args.registry) \notin Directories)
        => /\ result.type = "InstallError"
           /\ events = <<>>
           /\ files = pre

C6_Witness ==
    /\ IsPathCall
    /\ abspath(args.registry) \notin Directories
    /\ result.type = "InstallError"
    /\ files # NoFiles

(***************************************************************************)
(* Properties of install_to_vcs                                            *)
(***************************************************************************)
IsVcsCall == args.op = "install_to_vcs"

PostSent == IsVcsCall /\ EventsOf("POST") # {}

\* A 2xx answer.
Success(response) ==
    response.status_code >= 200 /\ response.status_code <= 299

\* The body follows the convention {"error": {"message": text}}.
HasErrorShape(body) ==
    "error" \in DOMAIN body /\ "message" \in DOMAIN body["error"]

\* What an InstallError has to carry for an answer.
ServerMessage(body) ==
    IF HasErrorShape(body) THEN body["error"]["message"] ELSE "unknown"

C8_NothingToCommitRaisesNoChanges ==
    (PostSent /\ args.post_response.status_code = 417)
        => /\ result.type = "InstallNoChanges"
           /\ EventsOf("info") = {}

Probes == EventsOf("fetch_definition_mapping")

\* C23: the probe of the target registry for the definitions of the batch
\* is complete before the first deletion or write: every deletion and
\* every write comes after a lookup of the registry.
C23_ProbeBeforeMutation ==
    IsPathCall
        => \A j \in EventsOf("write") \cup EventsOf("remove") :
               \E i \in Probes : i < j

\* C31: with overwrite off the existing content of the registry is the
\* same after the call as before it, however the call ends: no file is
\* deleted, no stored form is replaced, and every file added holds a
\* definition of the batch that was absent from the target registry.
C31_ExistingContentKept ==
    (IsPathCall /\ ~args.overwrite)
        => /\ EventsOf("remove") = {}
           /\ \A f \in DOMAIN pre : f \in DOMAIN files /\ files[f] = pre[f]
           /\ \A f \in DOMAIN files \ DOMAIN pre :
                  \E i \in 1..Len(Batch) :
                      /\ f = FileOf(TargetOf(args.registry), Batch[i])
                      /\ files[f] = encode(Batch[i])

C31_Witness ==
    /\ IsPathCall
    /\ ~args.overwrite
    /\ pre # NoFiles
    /\ result = Returned
    /\ Cardinality(DOMAIN files) = Cardinality(DOMAIN pre) + 1
    /\ \A f \in DOMAIN pre : files[f] = pre[f]

\* The identifiers the GET answered: data.content, each level optional.
ReturnedIdentifiers ==
    DOMAIN get(get(args.get_response.body, "data", EmptyObject),
               "content", EmptyObject)

\* C11: when the GET succeeds but the identifier is not a key of
\* data.content (data or content may be missing), the call raises
\* InstallError, sends no POST, resolves no author and reports nothing.
C11_UnknownIdentifierRaises ==
    (IsVcsCall /\ Success(args.get_response)
               /\ args.registry \notin ReturnedIdentifiers)
        => /\ result.type = "InstallError"
           /\ EventsOf("POST") = {}
           /\ EventsOf("get_name") = {}
           /\ EventsOf("info") = {}

C11_Witness ==
    /\ IsVcsCall
    /\ args.get_response.status_code = 200
    /\ args.get_response.body = [data |-> EmptyObject]
    /\ args.registry = "registry-id"
    /\ result = Raised("InstallError",
                       <<"is not a valid registry", "registry-id">>)
    /\ Len(events) = 1

\* The body the release POST has to carry for the batch of the last call.
BatchBody ==
    [contents |-> [i \in 1..Len(Batch) |-> encode(Batch[i])],
     author |-> IF args.name # None THEN args.name ELSE "unknown"]

\* C12: on a known registry exactly one POST goes to
\* /api/registry/{identifier}/release, with the query parameter overwrite
\* "true" or "false", the field "contents" holding the serialized
\* definitions of the batch in order and the field "author" holding the
\* author name or "unknown"; a success answer makes the call return and
\* report as many installed definitions as the batch holds.
C12_ReleaseCarriesBatch ==
    (IsVcsCall /\ Success(args.get_response)
               /\ args.registry \in ReturnedIdentifiers)
        => /\ Cardinality(EventsOf("POST")) = 1
           /\ \A i \in EventsOf("POST") :
                  /\ events[i].url
                         = <<"/api/registry", args.registry, "release">>
                  /\ events[i].params
                         = [overwrite |-> json_dumps(args.overwrite)]
                  /\ events[i].data = BatchBody
           /\ Success(args.post_response)
                  => /\ result = Returned
                     /\ ReportedInstalled = Len(Batch)

\* C13: either installer emits exactly one informational report when it
\* returns normally and none when it raises.
C13_ReportIffReturned ==
    (IsPathCall \/ IsVcsCall)
        => Cardinality(EventsOf("info"))
               = (IF result = Returned THEN 1 ELSE 0)

C13_Witness ==
    /\ IsPathCall
    /\ pre # NoFiles
    /\ args.overwrite
    /\ files # pre
    /\ result = Returned
    /\ Cardinality(EventsOf("info")) = 1

\* The last n segments of a path.
LastSegments(path, n) ==
    LET segments == split(path, SEP)
    IN  SubSeq(segments, Len(segments) - n + 1, Len(segments))

\* C18: for an existing root directory the registry path the call works
\* on is absolute and normalized, its last two segments are ".wiz" and
\* "registry", and the suffix is appended exactly when the root does not
\* already end in those two segments.
C18_RegistryPathNormalized ==
    (IsPathCall /\ isdir(args.registry))
        => /\ EventsOf("export_definition") # {}
           /\ \A i \in EventsOf("export_definition") :
                  /\ events[i].path[1] = SEP
                  /\ events[i].path = normpath(events[i].path)
                  /\ LastSegments(events[i].path, 2) = <<S_wiz, S_registry>>
                  /\ events[i].path = TargetOf(args.registry)

\* C24: exactly one GET /api/registry/all is issued, first; a POST is
\* issued at most once and only after that GET succeeded and the identifier
\* was found in its answer; the author name is resolved only when the POST
\* is sent; no request is made a second time.
C24_ProtocolOrder ==
    IsVcsCall
        => /\ EventsOf("GET") = {1}
           /\ events[1].url = <<"/api/registry/all">>
           /\ Cardinality(EventsOf("POST")) <= 1
           /\ Cardinality(EventsOf("get_name")) <= 1
           /\ EventsOf("POST") # {}
                  => /\ ok(args.get_response)
                     /\ args.registry \in ReturnedIdentifiers
           /\ EventsOf("get_name") # {} => EventsOf("POST") # {}
           /\ \A i \in EventsOf("get_name"), j \in EventsOf("POST") : i < j

C24_Witness ==
    /\ IsVcsCall
    /\ result = Returned
    /\ Len(events) = 5
    /\ events[1].op = "GET"
    /\ events[3].op = "get_name"
    /\ events[4].op = "POST"

(***************************************************************************)
(* Properties of shell                                                     *)
(***************************************************************************)
ShellOver == sh_pc \in {"returned", "raised"}

\* C2: on every exit path of shell, normal return or raised error, the
\* terminal mode after the call equals the mode before the call.
C2_TerminalModeRestored == ShellOver => tty = entry_tty

\* C19: once the child has exited, the loop goes on to the poll that ends
\* it without further input: it is never waiting in select with nothing to
\* read on the standard input or on the pty.
C19_ExitEndsLoop ==
    (child = "exited" /\ sh_pc = "select") => Ready # {}

\* The bytes of a stream that have been read: all that arrived but those
\* still waiting.
ReadSoFar(arrived, waiting) == SubSeq(arrived, 1, Len(arrived) - Len(waiting))

\* C25: between any two steps of the loop the bytes written to the pty are
\* the bytes read so far from the standard input, in order, and the bytes
\* written to the standard output are the bytes read so far from the pty,
\* in order.
C25_ForwardedAsRead ==
    /\ pty_in = ReadSoFar(typed, stdin_buf)
    /\ stdout = ReadSoFar(child_out, master_buf)
    /\ pty_in \o stdin_buf = typed
    /\ stdout \o master_buf = child_out

C25_Witness ==
    /\ sh_pc = "poll"
    /\ Len(pty_in) = 2
    /\ pty_in[1] # pty_in[2]
    /\ Len(stdout) = 2
    /\ stdout[1] # stdout[2]

\* C26: output waiting on the pty while the child runs is eventually
\* forwarded to the standard output (unless the child exits or the call
\* ends first), also when the standard input is ready at the same time or
\* stays ready for good.
C26_PtyOutputNotStarved ==
    (master_buf # <<>> /\ child = "running" /\ ~ShellOver)
        ~> (master_buf = <<>> \/ child # "running" \/ ShellOver)

\* C30: when shell returns, every byte the child wrote to the pty has been
\* forwarded to the standard output; nothing is left waiting on the pty.
C30_OutputDrainedAtReturn ==
    sh_pc = "returned" => (stdout = child_out /\ master_buf = <<>>)

(***************************************************************************)
(* Properties of execute                                                   *)
(***************************************************************************)
\* The text of a printed string or of a written line, without the line
\* ending and the blanks before it.
TextOf(s) == rstrip(s)

\* C20: every line the command writes to its stdout is echoed exactly once
\* and in the order written: what has been echoed is always the beginning
\* of what has been written, and when execute returns it is all of it.
C20_EveryLineEchoedOnce ==
    /\ Len(echoed) <= Len(written)
    /\ \A i \in 1..Len(echoed) : TextOf(echoed[i]) = TextOf(written[i])
    /\ ex_pc = "returned" => Len(echoed) = Len(written)

\* A line without its trailing line ending ("\n", "\r\n" or "\r"); every
\* other trailing character is kept.
WithoutLineEnding(line) ==
    LET n == Len(line)
    IN  IF n >= 2 /\ line[n - 1] = "\r" /\ line[n] = "\n"
        THEN SubSeq(line, 1, n - 2)
        ELSE IF n >= 1 /\ line[n] \in {"\n", "\r"}
        THEN SubSeq(line, 1, n - 1)
        ELSE line

\* C21: each echoed string is the line read from the command with only its
\* trailing line ending removed (trailing spaces and tabs kept), followed by
\* exactly one carriage-return/line-feed pair.
C21_OnlyLineEndingStripped ==
    \A i \in 1..Len(echoed) :
        i <= Len(written)
            => echoed[i] = WithoutLineEnding(written[i]) \o <<"\r", "\n">>

\* C22: both executors return normally whatever the exit status of the
\* spawned process: the poll that finds the process exited always leads to
\* the normal return (for shell through the restoring of the terminal),
\* never to an error.
C22_ExitStatusNeverRaises ==
    [][/\ (sh_pc = "poll" /\ returncode # NotExited /\ sh_pc' # sh_pc)
            => sh_pc' = "restore"
       /\ (sh_pc = "restore" /\ sh_pc' # sh_pc) => sh_pc' = "returned"
       /\ (ex_pc = "poll" /\ ex_returncode # NotExited /\ ex_pc' # ex_pc)
            => ex_pc' = "returned"]_vars

C22_Witness ==
    /\ sh_pc = "returned"
    /\ child = "exited"
    /\ returncode = {1}

\* The command can take a step: write a line, write an error byte, or exit.
ProcessCanStep ==
    /\ process = "running"
    /\ \/ todo_out # <<>> /\ Len(out_pipe) < PipeCapacity
       \/ todo_err > 0 /\ err_pipe < PipeCapacity
       \/ todo_out = <<>> /\ todo_err = 0

\* execute can take a step: poll, or read a waiting line or the end of the
\* pipe.
ExecuteCanStep ==
    \/ ex_pc = "poll"
    \/ ex_pc = "readline" /\ (out_pipe # <<>> \/ process = "exited")

\* C29: execute never deadlocks with the command: while the command has
\* not exited and execute has not returned, one of the two can go on,
\* whatever the amount written to stderr.
C29_NoDeadlock ==
    (process = "running" /\ ex_pc \in {"poll", "readline"})
        => (ProcessCanStep \/ ExecuteCanStep)

(***************************************************************************)
(* Properties of discover and fetch                                        *)
(***************************************************************************)
DiscoverDone == args.op = "discover" /\ result # Pending

FetchDone == args.op = "fetch" /\ result # Pending

\* The registry directories of a start path's levels, shallowest first.
Chain(levels) ==
    [i \in 1..Len(levels) |->
        Path(<<S_jobs, S_ads>> \o SubSeq(levels, 1, i)
                 \o <<S_wiz, S_registry>>)]

\* The members of a sequence of paths that are accessible to the last call.
AccessibleOf(paths, cwd) ==
    LET Test(q) == abspath_from(cwd, q) \in args.accessible
    IN  SelectSeq(paths, Test)

CheckedPaths == [i \in 1..Len(events) |-> events[i].path]

\* An explicit path resolved against the working directory.
Resolved(cwd, path) == IF path[1] = SEP THEN path ELSE cwd \o <<SEP>> \o path

ResolvedAll(cwd, paths) == [i \in 1..Len(paths) |-> Resolved(cwd, paths[i])]

C15_RelativePathsResolved ==
    FetchDone =>
        LET explicit == AccessibleOf(args.paths, args.cwd)
        IN  SubSeq(result.value, 1, Len(explicit)) =
                ResolvedAll(args.cwd, explicit)

\* C16: for a start path that is not under /jobs/ads the sequence is empty
\* and no accessibility check is made.
C16_OutsideRootNothing ==
    (DiscoverDone /\ ~args.under)
        => result.value = <<>> /\ events = <<>>

\* C17: for a start path with N levels under /jobs/ads a full iteration
\* makes N accessibility checks, one per level from the shallowest, and
\* yields the registry directories whose check succeeded, in that order.
C17_OneCheckPerLevel ==
    (DiscoverDone /\ args.under)
        => /\ Len(events) = Len(args.levels)
           /\ CheckedPaths = Chain(args.levels)
           /\ result.value = AccessibleOf(Chain(args.levels), getcwd)

C17_Witness ==
    /\ DiscoverDone
    /\ args.under
    /\ Len(args.levels) = 2
    /\ Len(events) = 2
    /\ result.value = <<Chain(args.levels)[2]>>

\* The registry directories of a start path's own chain: one for the
\* absolute start path and for each of its ancestors strictly below
\* /jobs/ads, compared segment by segment.
OwnChain(path) ==
    LET segments == split(abspath(path), SEP)
    IN  IF Len(segments) >= 3 /\ segments[2] = S_jobs /\ segments[3] = S_ads
        THEN {Path(SubSeq(segments, 2, n) \o <<S_wiz, S_registry>>) :
                  n \in 4..Len(segments)}
        ELSE {}

\* C28: discover checks and yields only registry directories of the start
\* path's own ancestor chain.
C28_OnlyOwnChain ==
    DiscoverDone
        => /\ \A i \in 1..Len(events) : events[i].path \in OwnChain(args.path)
           /\ \A i \in 1..Len(result.value) :
                  result.value[i] \in OwnChain(args.path)

IsGenerator == result.type = "generator"

\* C27 as stated: no accessibility check is made before the consumer asks
\* for an element, and a second iteration of the same returned sequence
\* yields the same registry directories as the first.
C27_LazyAndRestartable ==
    IsGenerator
        => /\ result.frame = "created" => events = <<>>
           /\ (result.pass = 2 /\ result.stopped)
                  => result.yielded = result.previous

\* C27, amended: no accessibility check is made before the consumer asks
\* for an element and none beyond the level of the element handed out;
\* the returned sequence is single-pass: a second iteration of it yields
\* nothing and makes no check.
C27_LazyAndSinglePass ==
    IsGenerator
        => /\ result.frame = "created" => events = <<>>
           /\ (result.frame = "suspended" /\ result.pass = 1)
                  => events[Len(events)].path
                         = result.yielded[Len(result.yielded)]
           /\ result.pass = 2
                  => /\ result.yielded = <<>>
                     /\ result.frame = "finished"
                     /\ Len(events) = result.checked

C27_Witness ==
    /\ IsGenerator
    /\ result.pass = 2
    /\ result.stopped
    /\ Len(result.previous) = 2
    /\ result.yielded = <<>>
    /\ Len(events) = 2

====
